---- MODULE Spec2Model ----
(***************************************************************************)
(* Payment simulation of the unified server (src/server.js): the payment   *)
(* route, its deferred resolver callback, the transaction listing, the     *)
(* generic ticket route, the admin status mutations of transactions and    *)
(* tickets, and the two backing stores (the in-memory lists and the        *)
(* external document store behind the models of src/database.js).          *)
(*                                                                         *)
(* Numbers: money is kept in cents, percentages in thousandths, exchange   *)
(* rates in millionths and crypto amounts in units of 10^-8, so that the   *)
(* decimal arithmetic of the handlers is exact integer arithmetic here.    *)
(***************************************************************************)
EXTENDS Integers, Sequences, FiniteSets, TLC

\* ------------------------------------------------------------------------
\* Bounds of the model
\* ------------------------------------------------------------------------
MaxTxns == 2
MaxClock == 1
MaxTickets == 1
MaxDesk == 2
MaxStock == 202
MaxUsers == 2

\* ------------------------------------------------------------------------
\* Values
\* ------------------------------------------------------------------------
\* A string-valued field that is absent, undefined, null or ''.
Undefined == ""

\* Math.random().toString(36).slice(..): a draw is told from another only by
\* being equal to it or not, and the draw of an id is only ever compared with
\* the draws of the ids of the same millisecond. After n of them it is one of
\* the texts "1".."n" drawn before or the new text "n+1".
RandomText(n) == {ToString(j) : j \in 1..(n + 1)}

\* The text drawn by the callback of the k-th payment for a confirmation code
\* or a transaction hash.
DrawnBy(k) == ToString(k)

CardMethods == {"card", "credit-card", "debit-card"}
CryptoMethods == {"bitcoin", "ethereum", "litecoin", "dogecoin", "cardano", "solana"}
OtherMethods == {"bank-transfer", "wire-transfer", "paypal", "check"}
\* The closed enumeration of the data model.
KnownMethods == CardMethods \cup CryptoMethods \cup OtherMethods
\* What a caller may send as paymentMethod.
MethodInputs == KnownMethods \cup {"unknown-method", Undefined}

isCrypto(method) ==
    method \in {"bitcoin", "ethereum", "litecoin", "dogecoin", "cardano", "solana"}

\* String.prototype.includes on the method names above.
Includes(method, sub) ==
    CASE sub = "card" -> method \in {"card", "credit-card", "debit-card"}
      [] sub = "transfer" -> method \in {"bank-transfer", "wire-transfer"}
      [] OTHER -> FALSE

\* The amount field of the request body as sent, and parseFloat of it.
AmountInputs == {Undefined, "0", "-5", "abc", "0.01", "500", "1000", "12.5abc"}

NaN == [nan |-> TRUE, cents |-> 0]
Num(c) == [nan |-> FALSE, cents |-> c]

\* parseFloat: the longest numeric prefix, NaN when there is none.
parseFloat(text) ==
    CASE text = "0" -> Num(0)
      [] text = "-5" -> Num(0 - 500)
      [] text = "0.01" -> Num(1)
      [] text = "500" -> Num(50000)
      [] text = "1000" -> Num(100000)
      [] text = "12.5abc" -> Num(1250)
      [] OTHER -> NaN

\* Card numbers are strings of digits, kept as sequences; <<>> is absent.
ShortCard == <<4, 1, 1, 1>>
VisaCard == <<4, 1, 1, 1, 1, 1, 1, 1, 1, 1, 1, 1, 1, 1, 1, 1>>
MasterCard == <<5, 5, 0, 0, 0, 0, 0, 0, 0, 0, 0, 0, 0, 0, 0, 4>>
CardNumberInputs == {<<>>, ShortCard, VisaCard, MasterCard}

\* cardNumber.slice(-4)
Last4(n) == IF Len(n) <= 4 THEN n ELSE SubSeq(n, Len(n) - 3, Len(n))

getCardType(n) ==
    LET f == IF Len(n) >= 1 THEN n[1] ELSE 0 - 1
        t == IF Len(n) >= 2 THEN 10 * n[1] + n[2] ELSE 0 - 1
    IN  IF f = 4 THEN "Visa"
        ELSE IF t >= 51 /\ t <= 55 THEN "Mastercard"
        ELSE IF t = 34 \/ t = 37 THEN "American Express"
        ELSE IF t = 60 \/ t = 65 THEN "Discover"
        ELSE "Unknown"

\* ------------------------------------------------------------------------
\* Fee and rate tables
\* ------------------------------------------------------------------------
\* cryptoRates, in millionths of a coin per dollar.
cryptoRates(method) ==
    CASE method = "bitcoin" -> 24
      [] method = "ethereum" -> 400
      [] method = "litecoin" -> 13500
      [] method = "dogecoin" -> 12500000
      [] method = "cardano" -> 2000000
      [] method = "solana" -> 10000
      [] OTHER -> 0

\* Network fee, in units of 10^-5 coin.
calculateCryptoFee(type) ==
    CASE type = "bitcoin" -> 10
      [] type = "ethereum" -> 100
      [] type = "litecoin" -> 100
      [] type = "dogecoin" -> 100000
      [] type = "cardano" -> 17000
      [] type = "solana" -> 25
      [] OTHER -> 0

\* Fee percentage in thousandths; 0 for a method with no entry.
feePermille(method) ==
    CASE method \in {"card", "credit-card"} -> 29
      [] method = "debit-card" -> 25
      [] method = "ethereum" -> 10
      [] method \in {"bitcoin", "litecoin", "dogecoin", "cardano", "solana"} -> 5
      [] OTHER -> 0

\* Math.round(x / d) for x >= 0: halves round up.
RoundDiv(x, d) == (2 * x + d) \div (2 * d)

\* The fee cut to whole cents instead of rounded.
calculateProcessingFeeFloor(method, cents) == (cents * feePermille(method)) \div 1000

\* Math.round(amount * pct * 100) / 100, in cents.
calculateProcessingFee(method, cents) == RoundDiv(cents * feePermille(method), 1000)

\* String.prototype.toUpperCase on the crypto method names.
toUpperCase(method) ==
    CASE method = "bitcoin" -> "BITCOIN"
      [] method = "ethereum" -> "ETHEREUM"
      [] method = "litecoin" -> "LITECOIN"
      [] method = "dogecoin" -> "DOGECOIN"
      [] method = "cardano" -> "CARDANO"
      [] method = "solana" -> "SOLANA"
      [] OTHER -> method

\* ------------------------------------------------------------------------
\* amt * cryptoRates[method] and Number.prototype.toFixed(8)
\* ------------------------------------------------------------------------
\* cents * rate is a number of 10^-8 coins. It can pass 2^31, so the product
\* is kept as hi * 10^8 + lo with 0 <= lo < 10^8 (schoolbook, base 10^4).
Times(cents, rate) ==
    LET Base == 10000
        ch == cents \div Base
        cl == cents % Base
        rh == rate \div Base
        rl == rate % Base
        mid == ch * rl + cl * rh
        low == (mid % Base) * Base + cl * rl
    IN  [hi |-> ch * rh + (mid \div Base) + (low \div (Base * Base)),
         lo |-> low % (Base * Base)]

\* The decimal digits of n, most significant first, padded to k digits.
RECURSIVE Digits(_, _)
Digits(n, k) == IF k = 0 THEN <<>> ELSE Append(Digits(n \div 10, k - 1), n % 10)

\* A toFixed(2) in place of toFixed(8).
toFixed2(x) == [whole |-> x.hi, frac |-> Digits(x.lo \div 1000000, 2)]

\* x.toFixed(8) of x = hi + lo / 10^8: the integer part, a point, and eight
\* fraction digits. The string is kept as its two parts.
toFixed8(x) == [whole |-> x.hi, frac |-> Digits(x.lo, 8)]

\* ------------------------------------------------------------------------
\* State
\* ------------------------------------------------------------------------
VARIABLES
    now,            \* Date.now(), in milliseconds since the server started
    mongoUri,       \* process.env.MONGODB_URI is set
    Transaction,    \* the Transaction model has been assigned by connectDB
    transactions,   \* the in-memory list
    collection,     \* the documents of the external transactions collection
    resolvers,      \* per accepted payment: where its handler and callback are
    notified,       \* per accepted payment: what became of its confirmation email
    supportTickets, \* the in-memory list of tickets
    ticketDocs,     \* the documents of the external tickets collection
    ticketCreates,  \* per pushed ticket: where the handler that pushed it is
    users,          \* the in-memory list of client accounts
    adminUsers,     \* the in-memory list of admin accounts
    registrations,  \* per registration request past validation: where it is
    request,        \* the body of the last payment request received
    response        \* the last response sent

ticketVars == <<supportTickets, ticketDocs, ticketCreates>>
userVars == <<users, adminUsers, registrations>>

vars == <<now, mongoUri, Transaction, transactions, collection, resolvers, notified,
          ticketVars, userVars, request, response>>

\* Positions of the k-th payment that pushed a record:
\*   creating      awaiting Transaction.create
\*   createFailed  Transaction.create rejected: no callback was scheduled
\*   timer         setTimeout pending
\*   email         callback awaiting sendPaymentConfirmationEmail
\*   updating      callback awaiting Transaction.findOneAndUpdate, applied
\*   rejecting     callback awaiting Transaction.findOneAndUpdate, refused
\*   done          callback returned
\*   threw         callback ended in an exception nobody handles
Positions == {"creating", "createFailed", "timer", "email", "updating", "rejecting",
              "done", "threw"}

NoDetails == [kind |-> "none"]
\* Unset confirmationCode, transactionHash and processedAt.
NoCode == <<>>
NoHash == <<>>
NoTime == <<>>
NoRequest == [amount |-> Undefined, paymentMethod |-> Undefined, customerInfo |-> FALSE,
              cardNumber |-> <<>>, expiryDate |-> Undefined, cvv |-> Undefined,
              cardName |-> Undefined, walletAddress |-> Undefined,
              cryptoTxHash |-> Undefined]
NoResponse == [op |-> "none", code |-> 0, error |-> Undefined, body |-> <<>>]

Reply(op, code, error, body) == [op |-> op, code |-> code, error |-> error, body |-> body]

\* Array.prototype.findIndex(t => t.id === id); 0 when there is none.
RECURSIVE FindFrom(_, _, _)
FindFrom(list, id, i) ==
    IF i > Len(list) THEN 0
    ELSE IF list[i].id = id THEN i
    ELSE FindFrom(list, id, i + 1)

\* A lookup that takes the -1 of a miss for the last item.
findIndexOrLast(list, id) == IF FindFrom(list, id, 1) = 0 THEN Len(list) ELSE FindFrom(list, id, 1)

findIndex(list, id) == FindFrom(list, id, 1)

Init ==
    /\ now = 0
    /\ mongoUri \in BOOLEAN
    /\ Transaction = FALSE
    /\ transactions = <<>>
    /\ collection = <<>>
    /\ resolvers = <<>>
    /\ notified = <<>>
    /\ supportTickets = <<>>
    /\ ticketDocs = <<>>
    /\ ticketCreates = <<>>
    /\ users = <<>>
    /\ adminUsers = <<>>
    /\ registrations = <<>>
    /\ request = NoRequest
    /\ response = NoResponse

\* ------------------------------------------------------------------------
\* POST /api/payment
\* ------------------------------------------------------------------------
\* The validation without the wallet-address check of the crypto branch.
validationNoWallet(r) ==
    LET amt == parseFloat(r.amount)
    IN  IF r.amount = Undefined \/ r.paymentMethod = Undefined \/ ~r.customerInfo
        THEN "Amount, payment method and customer info are required"
        ELSE IF amt.nan \/ amt.cents <= 0
        THEN "Invalid amount"
        ELSE IF Includes(r.paymentMethod, "card")
        THEN IF \/ r.cardNumber = <<>>
                \/ r.expiryDate = Undefined
                \/ r.cvv = Undefined
                \/ r.cardName = Undefined
             THEN "Incomplete card details"
             ELSE Undefined
        ELSE Undefined

\* The checks made before a record is built: the error message of the first
\* one that fails, Undefined when all pass.
validation(r) ==
    LET amt == parseFloat(r.amount)
    IN  IF r.amount = Undefined \/ r.paymentMethod = Undefined \/ ~r.customerInfo
        THEN "Amount, payment method and customer info are required"
        ELSE IF amt.nan \/ amt.cents <= 0
        THEN "Invalid amount"
        ELSE IF Includes(r.paymentMethod, "card")
        THEN IF \/ r.cardNumber = <<>>
                \/ r.expiryDate = Undefined
                \/ r.cvv = Undefined
                \/ r.cardName = Undefined
             THEN "Incomplete card details"
             ELSE Undefined
        ELSE IF isCrypto(r.paymentMethod)
        THEN IF r.walletAddress = Undefined THEN "Wallet address required" ELSE Undefined
        ELSE Undefined

\* The details object of a request that passed validation.
details(r) ==
    LET amt == parseFloat(r.amount).cents
    IN  IF Includes(r.paymentMethod, "card")
        THEN [kind |-> "card",
              cardLast4 |-> Last4(r.cardNumber),
              cardType |-> getCardType(r.cardNumber),
              expiryDate |-> r.expiryDate,
              cardHolderName |-> r.cardName]
        ELSE IF isCrypto(r.paymentMethod)
        THEN [kind |-> "crypto",
              cryptoType |-> toUpperCase(r.paymentMethod),
              exchangeRate |-> cryptoRates(r.paymentMethod),
              cryptoAmount |-> toFixed8(Times(amt, cryptoRates(r.paymentMethod))),
              walletAddress |-> r.walletAddress,
              networkFee |-> calculateCryptoFee(r.paymentMethod),
              transactionHash |-> IF r.cryptoTxHash = Undefined
                                  THEN NoHash
                                  ELSE <<"", r.cryptoTxHash>>]
        ELSE NoDetails

\* The txn object; rnd is the draw of Math.random() that ends the id.
txnRecord(r, rnd) ==
    LET amt == parseFloat(r.amount).cents
        fee == calculateProcessingFee(r.paymentMethod, amt)
    IN  [id |-> <<now, rnd>>,
         amount |-> amt,
         paymentMethod |-> r.paymentMethod,
         paymentDetails |-> details(r),
         status |-> "processing",
         timestamp |-> now,
         processingFee |-> fee,
         netAmount |-> amt - fee,
         confirmationCode |-> NoCode,
         failureReason |-> Undefined,
         processedAt |-> NoTime]

\* What Transaction.create stores of a record (the paths of TransactionSchema).
document(t) ==
    [id |-> t.id,
     amount |-> t.amount,
     paymentMethod |-> t.paymentMethod,
     paymentDetails |-> t.paymentDetails,
     status |-> t.status,
     timestamp |-> t.timestamp,
     confirmationCode |-> NoCode,
     processingFee |-> t.processingFee,
     netAmount |-> t.netAmount]

\* The number of ids built in the current millisecond.
SameMillisecond == Cardinality({i \in 1..Len(transactions) : transactions[i].id[1] = now})

\* The handler up to its first await (or to its end, with no model assigned).
Payment(r) ==
    /\ request' = r
    /\ IF validation(r) # Undefined
       THEN /\ response' = Reply("payment", 400, validation(r), <<>>)
            /\ UNCHANGED <<userVars, now, mongoUri, Transaction, transactions, collection,
                   resolvers, notified, ticketVars>>
       ELSE /\ Len(transactions) < MaxTxns
            /\ \E rnd \in RandomText(SameMillisecond) :
                 LET txn == txnRecord(r, rnd)
                 IN  /\ transactions' = Append(transactions, txn)
                     /\ notified' = Append(notified, "none")
                     /\ IF Transaction
                        THEN /\ resolvers' = Append(resolvers, "creating")
                             /\ UNCHANGED response
                        ELSE /\ resolvers' = Append(resolvers, "timer")
                             /\ response' = Reply("payment", 200, Undefined, <<txn.id>>)
            /\ UNCHANGED <<userVars, now, mongoUri, Transaction, collection, ticketVars>>

\* await Transaction.create(..) returns: the callback is scheduled and the
\* success response sent.
PaymentCreated(k) ==
    /\ resolvers[k] = "creating"
    /\ collection' = Append(collection, document(transactions[k]))
    /\ resolvers' = [resolvers EXCEPT ![k] = "timer"]
    /\ response' = Reply("payment", 200, Undefined, <<transactions[k].id>>)
    /\ UNCHANGED <<userVars, now, mongoUri, Transaction, transactions,
                   notified, ticketVars, request>>

\* A handler that swallows the rejection of Transaction.create and goes on to
\* schedule the callback.
PaymentCreateIgnored(k) ==
    /\ resolvers[k] = "creating"
    /\ resolvers' = [resolvers EXCEPT ![k] = "timer"]
    /\ response' = Reply("payment", 200, Undefined, <<transactions[k].id>>)
    /\ UNCHANGED <<userVars, now, mongoUri, Transaction, transactions, collection,
                   notified, ticketVars, request>>

\* await Transaction.create(..) rejects: the catch block answers 500; the
\* record pushed before the await stays in the in-memory list.
PaymentCreateFailed(k) ==
    /\ resolvers[k] = "creating"
    /\ resolvers' = [resolvers EXCEPT ![k] = "createFailed"]
    /\ response' = Reply("payment", 500, "Payment processing failed", <<>>)
    /\ UNCHANGED <<userVars, now, mongoUri, Transaction, transactions, collection,
                   notified, ticketVars, request>>

\* ------------------------------------------------------------------------
\* The callback given to setTimeout
\* ------------------------------------------------------------------------
generateConfirmationCode(method, rnd) ==
    LET prefix == IF isCrypto(method) THEN "CRYPTO"
                  ELSE IF Includes(method, "card") THEN "CARD"
                  ELSE IF Includes(method, "transfer") THEN "XFER"
                  ELSE "PAY"
    IN  <<prefix, rnd>>

\* A hash made of the random text alone.
generateCryptoTxHashBare(type, rnd) == <<"", rnd>>

generateCryptoTxHash(type, rnd) ==
    LET p == CASE type = "bitcoin" -> "1"
               [] type = "ethereum" -> "0x"
               [] type = "litecoin" -> "L"
               [] type = "dogecoin" -> "D"
               [] type = "cardano" -> "addr1"
               [] OTHER -> ""
    IN  <<p, rnd>>

\* details.transactionHash, read and assigned as JavaScript does on an object
\* that may not have the property.
hashOf(d) == IF "transactionHash" \in DOMAIN d THEN d.transactionHash ELSE NoHash

withHash(d, h) ==
    [f \in DOMAIN d \cup {"transactionHash"} |->
        IF f = "transactionHash" THEN h ELSE d[f]]

\* transactions[idx] after the synchronous part of the callback that drew
\* `success`; method is the paymentMethod of the closure.
resolved(t, method, success, rnd) ==
    LET t1 == [t EXCEPT !.status = IF success THEN "completed" ELSE "failed",
                        !.processedAt = <<now>>]
    IN  IF ~success
        THEN t1   \* getFailureReason(..) is not defined in this file: the
                  \* assignment to failureReason throws a ReferenceError
        ELSE LET t2 == [t1 EXCEPT !.confirmationCode = generateConfirmationCode(method, rnd)]
             IN  IF isCrypto(method) /\ hashOf(t2.paymentDetails) = NoHash
                 THEN [t2 EXCEPT !.paymentDetails =
                                     withHash(@, generateCryptoTxHash(method, rnd))]
                 ELSE t2

\* The timer of the k-th payment expires: the callback runs to its first
\* await (success) or to the exception (failure).
ResolverFire(k) ==
    /\ resolvers[k] = "timer"
    /\ LET idx == findIndex(transactions, transactions[k].id)
           method == transactions[k].paymentMethod
       IN  \E success \in BOOLEAN :
             /\ transactions' = [transactions EXCEPT
                                    ![idx] = resolved(@, method, success, DrawnBy(k))]
             /\ resolvers' = [resolvers EXCEPT ![k] = IF success THEN "email" ELSE "threw"]
    /\ UNCHANGED <<userVars, now, mongoUri, Transaction, collection, notified,
                   ticketVars, request, response>>

\* What findOneAndUpdate({ id }, { $set: .. }) does to the collection: the
\* first document with that id takes the paths of the schema among those set
\* (processedAt and failureReason are no paths of TransactionSchema).
findOneAndUpdate(docs, id, t) ==
    LET j == findIndex(docs, id)
    IN  IF j = 0 THEN docs
        ELSE [docs EXCEPT ![j].status = t.status,
                          ![j].confirmationCode = t.confirmationCode,
                          ![j].paymentDetails = t.paymentDetails]

\* sendEmail: true when the transport took the message (or in demo mode),
\* false when sendMail threw; the try/catch lets no error out.
sendEmail(delivered) == IF delivered THEN "sent" ELSE "failed"

\* A callback that lets a failed notification escape.
afterNotifierRethrow(outcome) == IF outcome = "failed" THEN "throw" ELSE "continue"

\* await sendPaymentConfirmationEmail(..).catch(() => {}): the result is not
\* looked at and a rejection is swallowed.
afterNotifier(outcome) == "continue"

\* The email await returns. With no model assigned the callback returns; with
\* one, it calls findOneAndUpdate, which the store applies.
ResolverNotified(k) ==
    /\ resolvers[k] = "email"
    /\ \E delivered \in BOOLEAN :
          LET outcome == sendEmail(delivered)
              id == transactions[k].id
              idx == findIndex(transactions, id)
          IN  /\ notified' = [notified EXCEPT ![k] = outcome]
              /\ IF afterNotifier(outcome) = "throw"
                 THEN /\ resolvers' = [resolvers EXCEPT ![k] = "threw"]
                      /\ UNCHANGED collection
                 ELSE IF Transaction
                 THEN /\ collection' = findOneAndUpdate(collection, id, transactions[idx])
                      /\ resolvers' = [resolvers EXCEPT ![k] = "updating"]
                 ELSE /\ resolvers' = [resolvers EXCEPT ![k] = "done"]
                      /\ UNCHANGED collection
    /\ UNCHANGED <<userVars, now, mongoUri, Transaction, transactions,
                   ticketVars, request, response>>

\* The same with a store that refuses the update.
ResolverNotifiedStoreDown(k) ==
    /\ resolvers[k] = "email"
    /\ Transaction
    /\ \E delivered \in BOOLEAN :
          LET outcome == sendEmail(delivered)
          IN  /\ notified' = [notified EXCEPT ![k] = outcome]
              /\ resolvers' = [resolvers EXCEPT ![k] =
                     IF afterNotifier(outcome) = "throw" THEN "threw" ELSE "rejecting"]
    /\ UNCHANGED <<userVars, now, mongoUri, Transaction, transactions, collection,
                   ticketVars, request, response>>

\* await Transaction.findOneAndUpdate(..) returns: the callback returns.
ResolverPersist(k) ==
    /\ resolvers[k] = "updating"
    /\ resolvers' = [resolvers EXCEPT ![k] = "done"]
    /\ UNCHANGED <<userVars, now, mongoUri, Transaction, transactions, collection,
                   notified, ticketVars, request, response>>

\* await Transaction.findOneAndUpdate(..) rejects; nothing in the callback
\* catches it.
ResolverPersistFailed(k) ==
    /\ resolvers[k] = "rejecting"
    /\ resolvers' = [resolvers EXCEPT ![k] = "threw"]
    /\ UNCHANGED <<userVars, now, mongoUri, Transaction, transactions, collection,
                   notified, ticketVars, request, response>>

\* ------------------------------------------------------------------------
\* PATCH /api/transactions/:id  { status }
\* ------------------------------------------------------------------------
StatusInputs == {Undefined, "completed", "pending"}
UnknownId == <<0 - 1, "1">>

\* !status
isFalsyNever(value) == FALSE

isFalsy(value) == value = Undefined

\* A mutation that writes the status to every record of the list.
setStatusOfAll(list, idx, status) == [i \in DOMAIN list |-> [list[i] EXCEPT !.status = status]]

\* list[idx].status = status, and the { status } of findOneAndUpdate.
setStatus(list, idx, status) == [list EXCEPT ![idx].status = status]

PatchTransaction(id, status) ==
    /\ IF isFalsy(status)
       THEN /\ response' = Reply("patch", 400, "Status is required", <<>>)
            /\ UNCHANGED <<transactions, collection>>
       ELSE IF Transaction
       THEN LET j == findIndex(collection, id)
            IN  IF j = 0
                THEN /\ response' = Reply("patch", 404, "Transaction not found", <<>>)
                     /\ UNCHANGED <<transactions, collection>>
                ELSE /\ collection' = setStatus(collection, j, status)
                     /\ response' = Reply("patch", 200, Undefined, <<collection'[j]>>)
                     /\ UNCHANGED transactions
       ELSE LET idx == findIndex(transactions, id)
            IN  IF idx = 0
                THEN /\ response' = Reply("patch", 404, "Transaction not found", <<>>)
                     /\ UNCHANGED <<transactions, collection>>
                ELSE /\ transactions' = setStatus(transactions, idx, status)
                     /\ response' = Reply("patch", 200, Undefined, <<transactions'[idx]>>)
                     /\ UNCHANGED collection
    /\ UNCHANGED <<userVars, now, mongoUri, Transaction, resolvers,
                   notified, ticketVars, request>>

\* ------------------------------------------------------------------------
\* Tickets: POST /api/tickets and PATCH /api/tickets/:id  { status }
\* ------------------------------------------------------------------------
\* Ticket is assigned by the statement of connectDB that assigns Transaction.
Ticket == Transaction

TicketTypeInputs == {Undefined, "quote"}
TicketStatusInputs == {Undefined, "closed"}
UnknownTicketId == 0 - 1

\* The ticket object of the generic route; the type defaults to 'contact'.
ticketRecord(type) ==
    [id |-> now,
     type |-> IF type = Undefined THEN "contact" ELSE type,
     status |-> "new",
     timestamp |-> now]

\* Positions of the handler that pushed the n-th ticket:
\*   creating   awaiting Ticket.create
\*   answered   201 sent
\*   failed     Ticket.create rejected, 400 sent
\* The handler up to its first await (or to its end, with no model assigned).
CreateTicket(type, name, email) ==
    /\ IF ~name \/ ~email
       THEN /\ response' = Reply("ticket", 400, "Name and email required", <<>>)
            /\ UNCHANGED ticketVars
       ELSE /\ supportTickets' = Append(supportTickets, ticketRecord(type))
            /\ UNCHANGED ticketDocs
            /\ IF Ticket
               THEN /\ ticketCreates' = Append(ticketCreates, "creating")
                    /\ UNCHANGED response
               ELSE /\ ticketCreates' = Append(ticketCreates, "answered")
                    /\ response' = Reply("ticket", 201, Undefined, <<ticketRecord(type)>>)
    /\ UNCHANGED <<userVars, now, mongoUri, Transaction, transactions, collection, resolvers, notified,
                   request>>

\* await Ticket.create(..) returns: 201 with the ticket.
TicketCreated(n) ==
    /\ ticketCreates[n] = "creating"
    /\ ticketDocs' = Append(ticketDocs, supportTickets[n])
    /\ ticketCreates' = [ticketCreates EXCEPT ![n] = "answered"]
    /\ response' = Reply("ticket", 201, Undefined, <<supportTickets[n]>>)
    /\ UNCHANGED <<userVars, now, mongoUri, Transaction, transactions, collection, resolvers, notified,
                   supportTickets, request>>

\* await Ticket.create(..) rejects: the catch block answers 400; the ticket
\* pushed before the await stays in the in-memory list.
TicketCreateFailed(n) ==
    /\ ticketCreates[n] = "creating"
    /\ ticketCreates' = [ticketCreates EXCEPT ![n] = "failed"]
    /\ response' = Reply("ticket", 400, "Failed to create ticket", <<>>)
    /\ UNCHANGED <<userVars, now, mongoUri, Transaction, transactions, collection, resolvers, notified,
                   supportTickets, ticketDocs, request>>

\* id is Number(req.params.id).
PatchTicket(id, status) ==
    /\ IF isFalsy(status)
       THEN /\ response' = Reply("patchTicket", 400, "Status is required", <<>>)
            /\ UNCHANGED <<supportTickets, ticketDocs>>
       ELSE IF Ticket
       THEN LET j == findIndex(ticketDocs, id)
            IN  IF j = 0
                THEN /\ response' = Reply("patchTicket", 404, "Ticket not found", <<>>)
                     /\ UNCHANGED <<supportTickets, ticketDocs>>
                ELSE /\ ticketDocs' = setStatus(ticketDocs, j, status)
                     /\ response' = Reply("patchTicket", 200, Undefined, <<ticketDocs'[j]>>)
                     /\ UNCHANGED supportTickets
       ELSE LET idx == findIndex(supportTickets, id)
            IN  IF idx = 0
                THEN /\ response' = Reply("patchTicket", 404, "Ticket not found", <<>>)
                     /\ UNCHANGED <<supportTickets, ticketDocs>>
                ELSE /\ supportTickets' = setStatus(supportTickets, idx, status)
                     /\ response' = Reply("patchTicket", 200, Undefined, <<supportTickets'[idx]>>)
                     /\ UNCHANGED ticketDocs
    /\ UNCHANGED <<userVars, now, mongoUri, Transaction, transactions, collection, resolvers, notified,
                   ticketCreates, request>>

\* ------------------------------------------------------------------------
\* GET /api/transactions?status=..&limit=..&sort=..
\* ------------------------------------------------------------------------
FilterInputs == {Undefined, "all", "completed", "processing"}
LimitInputs == {Undefined, "1", "0", "-1", "abc", "500"}
SortInputs == {Undefined, "asc", "desc"}

\* parseInt(text, 10) of the limit parameter.
parseInt(text) ==
    CASE text = "1" -> Num(1)
      [] text = "0" -> Num(0)
      [] text = "-1" -> Num(0 - 1)
      [] text = "500" -> Num(500)
      [] OTHER -> NaN

Min(a, b) == IF a <= b THEN a ELSE b

\* Math.min(parseInt(limit, 10) || 50, 200) with the default limit = '50'.
limOf(limit) ==
    LET n == IF limit = Undefined THEN Num(50) ELSE parseInt(limit)
    IN  Min(IF n.nan \/ n.cents = 0 THEN 50 ELSE n.cents, 200)

\* sort === 'asc' ? 1 : -1
dirOf(sort) == IF sort = "asc" THEN 1 ELSE 0 - 1

\* The query q: no status, or status 'all', selects every record.
Selected(list, status) ==
    IF status = Undefined \/ status = "all"
    THEN list
    ELSE SelectSeq(list, LAMBDA t : t.status = status)

\* (a, b) => (new Date(a.timestamp) - new Date(b.timestamp)) * dir
compare(a, b, dir) == (a.timestamp - b.timestamp) * dir

\* Array.prototype.sort with that comparator: stable, so records of equal
\* timestamp keep their order. ranks(..)[i] is the place items[i] is moved
\* to: behind the items that compare before it and the equal ones ahead of it.
ranks(items, dir) ==
    [i \in 1..Len(items) |->
        1 + Cardinality({j \in 1..Len(items) :
                \/ compare(items[j], items[i], dir) < 0
                \/ compare(items[j], items[i], dir) = 0 /\ j < i})]

\* The item that is moved to each place.
sources(rank) == [p \in DOMAIN rank |-> CHOOSE i \in DOMAIN rank : rank[i] = p]

moved(items, from) == [p \in DOMAIN from |-> items[from[p]]]

\* A sort that leaves the items in the order it found them.
sortNothing(items, dir) == items

sort(items, dir) == IF items = <<>> THEN <<>> ELSE moved(items, sources(ranks(items, dir)))

\* Array.prototype.slice(0, lim): a negative lim counts from the end.
slice(items, lim) ==
    LET end == IF lim >= 0 THEN Min(lim, Len(items))
               ELSE IF Len(items) + lim > 0 THEN Len(items) + lim ELSE 0
    IN  SubSeq(items, 1, end)

\* The memory branch of the listing.
memoryItems(status, limit, sortParam) ==
    slice(sort(Selected(transactions, status), dirOf(sortParam)), limOf(limit))

\* Transaction.find(q).sort({ timestamp: dir }): the documents in timestamp
\* order; the store fixes no order among documents of equal timestamp.
Sorted(docs, dir) ==
    LET n == Len(docs)
        Orders == {f \in [1..n -> 1..n] : \A i, j \in 1..n : i # j => f[i] # f[j]}
    IN  { [i \in 1..n |-> docs[f[i]]] : f \in
            {g \in Orders : \A i \in 1..n : i < n => compare(docs[g[i]], docs[g[i + 1]], dir) <= 0} }

\* .limit(lim): a negative limit is taken as its absolute value.
limitTo(docs, lim) == SubSeq(docs, 1, Min(IF lim < 0 THEN 0 - lim ELSE lim, Len(docs)))

\* The results the database branch of the listing can return.
databaseItems(status, limit, sortParam) ==
    { limitTo(found, limOf(limit)) : found \in Sorted(Selected(collection, status), dirOf(sortParam)) }

ListTransactions(status, limit, sortParam) ==
    /\ \E items \in IF Transaction
                     THEN databaseItems(status, limit, sortParam)
                     ELSE {memoryItems(status, limit, sortParam)} :
          response' = Reply("list", 200, Undefined, items)
    /\ UNCHANGED <<userVars, now, mongoUri, Transaction, transactions, collection,
                   resolvers, notified, ticketVars, request>>

\* ------------------------------------------------------------------------
\* POST /api/contact and POST /api/quote
\* ------------------------------------------------------------------------
\* Positions of the handler of a public route that pushed the n-th ticket:
\*   storing    awaiting Ticket.create
\*   mailing    awaiting sendEmail
\*   answered   { success: true, ticketId } sent
\*   failed     Ticket.create rejected, 500 sent
\* The ticket object of the public routes.
intakeTicket(type) ==
    [id |-> now, type |-> type, status |-> "new", timestamp |-> now]

\* A public handler up to its first await.
Intake(type) ==
    /\ supportTickets' = Append(supportTickets, intakeTicket(type))
    /\ ticketCreates' = Append(ticketCreates, IF Ticket THEN "storing" ELSE "mailing")
    /\ UNCHANGED <<userVars, now, mongoUri, Transaction, transactions, collection, resolvers,
                   notified, ticketDocs, request, response>>

Contact == Intake("contact")

Quote == Intake("quote")

\* await Ticket.create(..) returns: the handler goes on to the email.
IntakeStored(n) ==
    /\ ticketCreates[n] = "storing"
    /\ ticketDocs' = Append(ticketDocs, supportTickets[n])
    /\ ticketCreates' = [ticketCreates EXCEPT ![n] = "mailing"]
    /\ UNCHANGED <<userVars, now, mongoUri, Transaction, transactions, collection, resolvers,
                   notified, supportTickets, request, response>>

\* await Ticket.create(..) rejects: the catch block answers 500; the ticket
\* pushed before the await stays in the in-memory list.
IntakeStoreFailed(n) ==
    /\ ticketCreates[n] = "storing"
    /\ ticketCreates' = [ticketCreates EXCEPT ![n] = "failed"]
    /\ response' = Reply(supportTickets[n].type, 500,
                         IF supportTickets[n].type = "contact"
                         THEN "Failed to submit inquiry" ELSE "Failed to submit quote",
                         <<>>)
    /\ UNCHANGED <<userVars, now, mongoUri, Transaction, transactions, collection, resolvers,
                   notified, supportTickets, ticketDocs, request>>

\* A handler that moves the ticket on when it answers.
IntakeMailedInProgress(n) ==
    /\ ticketCreates[n] = "mailing"
    /\ ticketCreates' = [ticketCreates EXCEPT ![n] = "answered"]
    /\ supportTickets' = [supportTickets EXCEPT ![n].status = "in-progress"]
    /\ response' = Reply(supportTickets[n].type, 200, Undefined, <<supportTickets[n].id>>)
    /\ UNCHANGED <<userVars, now, mongoUri, Transaction, transactions, collection, resolvers,
                   notified, ticketDocs, request>>

\* await sendEmail(..) returns, with true or false: the handler answers with
\* the ticket id.
IntakeMailed(n) ==
    /\ ticketCreates[n] = "mailing"
    /\ ticketCreates' = [ticketCreates EXCEPT ![n] = "answered"]
    /\ response' = Reply(supportTickets[n].type, 200, Undefined, <<supportTickets[n].id>>)
    /\ UNCHANGED <<userVars, now, mongoUri, Transaction, transactions, collection, resolvers,
                   notified, supportTickets, ticketDocs, request>>

\* ------------------------------------------------------------------------
\* GET /api/tickets?status=..&type=..&limit=..&sort=..
\* ------------------------------------------------------------------------
TypeInputs == {Undefined, "all", "quote"}

\* The query q of the tickets listing.
SelectedTickets(list, status, type) ==
    LET byStatus == Selected(list, status)
    IN  IF type = Undefined \/ type = "all"
        THEN byStatus
        ELSE SelectSeq(byStatus, LAMBDA t : t.type = type)

memoryTickets(status, type, limit, sortParam) ==
    slice(sort(SelectedTickets(supportTickets, status, type), dirOf(sortParam)), limOf(limit))

databaseTickets(status, type, limit, sortParam) ==
    { limitTo(found, limOf(limit)) :
        found \in Sorted(SelectedTickets(ticketDocs, status, type), dirOf(sortParam)) }

ListTickets(status, type, limit, sortParam) ==
    /\ \E items \in IF Ticket
                     THEN databaseTickets(status, type, limit, sortParam)
                     ELSE {memoryTickets(status, type, limit, sortParam)} :
          response' = Reply("tickets", 200, Undefined, items)
    /\ UNCHANGED <<userVars, now, mongoUri, Transaction, transactions, collection,
                   resolvers, notified, ticketVars, request>>

\* ------------------------------------------------------------------------
\* GET /api/stats
\* ------------------------------------------------------------------------
\* list.filter(t => t.status === status).length, countDocuments({ status })
CountOf(list, status) == Len(SelectSeq(list, LAMBDA t : t.status = status))

\* reduce((s, t) => s + f(t), 0) over the completed records, in cents.
RECURSIVE SumFrom(_, _, _)
SumFrom(list, i, field) ==
    IF i > Len(list) THEN 0
    ELSE (IF list[i].status = "completed" THEN list[i][field] ELSE 0)
         + SumFrom(list, i + 1, field)

\* The body of the answer, from the lists of the branch taken.
stats(txns, tickets) ==
    [totalRevenue |-> SumFrom(txns, 1, "netAmount"),
     totalRevenueNet |-> SumFrom(txns, 1, "netAmount"),
     totalRevenueGross |-> SumFrom(txns, 1, "amount"),
     totalTransactions |-> Len(txns),
     completedTransactions |-> CountOf(txns, "completed"),
     pendingTransactions |-> CountOf(txns, "pending"),
     totalTickets |-> Len(tickets),
     newTickets |-> CountOf(tickets, "new")]

Stats ==
    /\ response' = Reply("stats", 200, Undefined,
                         <<IF Transaction /\ Ticket
                           THEN stats(collection, ticketDocs)
                           ELSE stats(transactions, supportTickets)>>)
    /\ UNCHANGED <<userVars, now, mongoUri, Transaction, transactions, collection,
                   resolvers, notified, ticketVars, request>>

\* ------------------------------------------------------------------------
\* The server that keeps everything in memory (the second server file of
\* src/unnamed/part_003): its registration, its public ticket routes, its
\* admin listing of tickets and its admin dashboard
\* ------------------------------------------------------------------------
\* process.env.ADMIN_EMAIL || 'admin@trexo.com'
AdminEmail == "admin@trexo.com"

EmailInputs == {Undefined, "nobody", "ann@x.io", "Ann@X.io", AdminEmail}

\* String.prototype.toLowerCase on the emails above.
toLowerCase(text) == IF text = "Ann@X.io" THEN "ann@x.io" ELSE text

\* /^[^\s@]+@[^\s@]+\.[^\s@]+$/.test(email)
emailRegex(text) == text \in {"ann@x.io", "Ann@X.io", AdminEmail}

\* 'abc'.length and 'secret1'.length
PasswordInputs == {Undefined, "abc", "secret1"}
lengthOf(password) == IF password = "abc" THEN 3 ELSE IF password = "secret1" THEN 7 ELSE 0

RegisterInputs ==
    [firstName : {Undefined, "Ann"}, lastName : {"Lee"}, email : EmailInputs,
     password : PasswordInputs, confirmPassword : {"abc", "secret1"}]

\* The error of the validation, or none.
registerValidation(r) ==
    IF r.firstName = Undefined \/ r.lastName = Undefined \/ r.email = Undefined
       \/ r.password = Undefined
    THEN "First name, last name, email, and password are required"
    ELSE IF r.password # r.confirmPassword THEN "Passwords do not match"
    ELSE IF lengthOf(r.password) < 6 THEN "Password must be at least 6 characters long"
    ELSE IF ~emailRegex(r.email) THEN "Please enter a valid email address"
    ELSE Undefined

\* list.find(u => u.email.toLowerCase() === email.toLowerCase())
findByEmail(list, email) ==
    \E i \in 1..Len(list) : toLowerCase(list[i].email) = toLowerCase(email)

\* existingUser || existingAdmin
emailTaken(email) == findByEmail(users, email) \/ findByEmail(adminUsers, email)

\* Positions of a registration past its checks:
\*   hashing    awaiting bcrypt.hash
\*   mailing    user pushed, awaiting sendEmail
\*   answered   201 sent
\* The handler up to its first await.
Register(r) ==
    /\ IF registerValidation(r) # Undefined
       THEN /\ response' = Reply("register", 400, registerValidation(r), <<>>)
            /\ UNCHANGED registrations
       ELSE IF emailTaken(r.email)
       THEN /\ response' = Reply("register", 409,
                                 "An account with this email already exists", <<>>)
            /\ UNCHANGED registrations
       ELSE /\ registrations' = Append(registrations, [email |-> r.email, at |-> "hashing"])
            /\ UNCHANGED response
    /\ UNCHANGED <<now, mongoUri, Transaction, transactions, collection, resolvers, notified,
                   ticketVars, users, adminUsers, request>>

\* await bcrypt.hash(..) returns: the user is pushed and the welcome email
\* sent off.
RegisterHashed(n) ==
    /\ registrations[n].at = "hashing"
    /\ users' = Append(users, [id |-> now, email |-> toLowerCase(registrations[n].email)])
    /\ registrations' = [registrations EXCEPT ![n].at = "mailing"]
    /\ UNCHANGED <<now, mongoUri, Transaction, transactions, collection, resolvers, notified,
                   ticketVars, adminUsers, request, response>>

\* await sendEmail(..) returns, with true or false: 201 with the user.
RegisterMailed(n) ==
    /\ registrations[n].at = "mailing"
    /\ registrations' = [registrations EXCEPT ![n].at = "answered"]
    /\ response' = Reply("register", 201, Undefined, <<toLowerCase(registrations[n].email)>>)
    /\ UNCHANGED <<now, mongoUri, Transaction, transactions, collection, resolvers, notified,
                   ticketVars, users, adminUsers, request>>

\* initializeAdmin: its await of bcrypt.hash returns and the admin list is
\* assigned.
InitializeAdmin ==
    /\ adminUsers = <<>>
    /\ adminUsers' = <<[id |-> 1, email |-> AdminEmail]>>
    /\ UNCHANGED <<now, mongoUri, Transaction, transactions, collection, resolvers, notified,
                   ticketVars, users, registrations, request, response>>

\* POST /api/contact and POST /api/quote of this server, up to the await of
\* sendEmail.
Inquiry(type) ==
    /\ supportTickets' = Append(supportTickets,
                                [id |-> now, type |-> type, status |-> "new", timestamp |-> now])
    /\ ticketCreates' = Append(ticketCreates, "mailing")
    /\ UNCHANGED <<userVars, now, mongoUri, Transaction, transactions, collection, resolvers,
                   notified, ticketDocs, request, response>>

\* await sendEmail(..) returns: the handler answers with the ticket id.
InquiryMailed(n) ==
    /\ ticketCreates[n] = "mailing"
    /\ ticketCreates' = [ticketCreates EXCEPT ![n] = "answered"]
    /\ response' = Reply(supportTickets[n].type, 200, Undefined, <<supportTickets[n].id>>)
    /\ UNCHANGED <<userVars, now, mongoUri, Transaction, transactions, collection, resolvers,
                   notified, supportTickets, ticketDocs, request>>

\* Array.prototype.reverse
reverse(list) == [i \in 1..Len(list) |-> list[Len(list) + 1 - i]]

\* Array.prototype.slice(-5)
lastFive(list) == SubSeq(list, IF Len(list) > 5 THEN Len(list) - 4 ELSE 1, Len(list))

\* GET /api/admin/tickets: supportTickets.reverse() reverses the list itself
\* and returns it.
AdminTickets ==
    /\ supportTickets' = reverse(supportTickets)
    /\ ticketCreates' = reverse(ticketCreates)
    /\ response' = Reply("adminTickets", 200, Undefined, supportTickets')
    /\ UNCHANGED <<userVars, now, mongoUri, Transaction, transactions, collection, resolvers,
                   notified, ticketDocs, request>>

\* GET /api/admin/dashboard: the recent records are reversed copies.
AdminDashboard ==
    /\ response' = Reply("adminDashboard", 200, Undefined,
                         <<[totalTransactions |-> Len(transactions),
                            totalTickets |-> Len(supportTickets),
                            newTickets |-> CountOf(supportTickets, "new"),
                            totalRevenue |-> SumFrom(transactions, 1, "amount"),
                            recentTransactions |-> reverse(lastFive(transactions)),
                            recentTickets |-> reverse(lastFive(supportTickets))]>>)
    /\ UNCHANGED <<userVars, now, mongoUri, Transaction, transactions, collection, resolvers,
                   notified, ticketVars, request>>

\* ------------------------------------------------------------------------
\* Environment
\* ------------------------------------------------------------------------
\* connectDB: mongoose.connect returned and the models were required.
ConnectDB ==
    /\ mongoUri
    /\ ~Transaction
    /\ Transaction' = TRUE
    /\ UNCHANGED <<userVars, now, mongoUri, transactions, collection, resolvers,
                   notified, ticketVars, request, response>>

\* A millisecond passes.
Tick ==
    /\ now < MaxClock
    /\ now' = now + 1
    /\ UNCHANGED <<userVars, mongoUri, Transaction, transactions, collection, resolvers,
                   notified, ticketVars, request, response>>

\* ------------------------------------------------------------------------
\* Specifications
\* ------------------------------------------------------------------------
Slots == 1..Len(transactions)
KnownIds == {transactions[k].id : k \in Slots} \cup {UnknownId}

ValidCard == [amount |-> "1000", paymentMethod |-> "card", customerInfo |-> TRUE,
              cardNumber |-> VisaCard, expiryDate |-> "12/30", cvv |-> "123",
              cardName |-> "A HOLDER", walletAddress |-> Undefined,
              cryptoTxHash |-> Undefined]

\* The requests of the lifecycle specification.
LifecycleRequests ==
    { ValidCard,
      [ValidCard EXCEPT !.amount = "500", !.paymentMethod = "bitcoin",
                        !.cardNumber = <<>>, !.walletAddress = "wallet-1"] }

Submit == \E r \in LifecycleRequests : Payment(r)
Created == \E k \in Slots : PaymentCreated(k)
CreateFailed == \E k \in Slots : PaymentCreateFailed(k)
Fire == \E k \in Slots : ResolverFire(k)
Notified == \E k \in Slots : ResolverNotified(k)
NotifiedStoreDown == \E k \in Slots : ResolverNotifiedStoreDown(k)
Persist == \E k \in Slots : ResolverPersist(k)
PersistFailed == \E k \in Slots : ResolverPersistFailed(k)
Patch == \E id \in KnownIds, status \in StatusInputs : PatchTransaction(id, status)

Next ==
    \/ Submit
    \/ Created
    \/ CreateFailed
    \/ Fire
    \/ Notified
    \/ NotifiedStoreDown
    \/ Persist
    \/ PersistFailed
    \/ Patch
    \/ ConnectDB
    \/ Tick

Spec == Init /\ [][Next]_vars

\* ------------------------------------------------------------------------
\* One payment request of any shape, followed to its resolution
\* ------------------------------------------------------------------------
TextInputs(present) == {Undefined, present}

RequestsOf(methods, cards, expiries, cvvs, names, wallets, hashes) ==
    [amount : AmountInputs, paymentMethod : methods, customerInfo : BOOLEAN,
     cardNumber : cards, expiryDate : expiries, cvv : cvvs, cardName : names,
     walletAddress : wallets, cryptoTxHash : hashes]

\* Card requests vary the card fields, crypto requests the wallet and the
\* hash; a field a branch never reads is left out.
Requests ==
    RequestsOf(CardMethods, CardNumberInputs, TextInputs("12/30"), TextInputs("123"),
               TextInputs("A HOLDER"), {Undefined}, {Undefined})
    \cup RequestsOf(CryptoMethods, {<<>>}, {Undefined}, {Undefined}, {Undefined},
                    TextInputs("wallet-1"), TextInputs("0xabc"))
    \cup RequestsOf(OtherMethods \cup {"unknown-method", Undefined}, {<<>>}, {Undefined},
                    {Undefined}, {Undefined}, {Undefined}, {Undefined})

\* No payment request has been received yet.
Fresh == request = NoRequest /\ response = NoResponse /\ transactions = <<>>

SubmitOne == Fresh /\ \E r \in Requests : Payment(r)

NextOne ==
    \/ SubmitOne
    \/ Created
    \/ CreateFailed
    \/ Fire
    \/ Notified
    \/ NotifiedStoreDown
    \/ Persist
    \/ PersistFailed
    \/ ConnectDB

SpecOne == Init /\ [][NextOne]_vars

\* The same with a store that never fails, and with what the event loop
\* guarantees: a pending await returns, an expired timer runs its callback,
\* the connection attempt ends.
NextOneHealthy ==
    \/ SubmitOne
    \/ Created
    \/ Fire
    \/ Notified
    \/ Persist
    \/ ConnectDB

FairOne ==
    /\ Init
    /\ [][NextOneHealthy]_vars
    /\ WF_vars(Created)
    /\ WF_vars(Fire)
    /\ WF_vars(Notified)
    /\ WF_vars(Persist)
    /\ WF_vars(ConnectDB)

\* ------------------------------------------------------------------------
\* Payments, their resolution and listings, with a store that never fails
\* ------------------------------------------------------------------------
\* The queries of a listing: every filter in both directions with the default
\* limit, every limit in both directions with no filter, and one query that
\* sets all three.
ListQueries ==
    {<<status, Undefined, sortParam>> : status \in FilterInputs, sortParam \in SortInputs}
    \cup {<<Undefined, limit, sortParam>> : limit \in LimitInputs, sortParam \in {"asc", "desc"}}
    \cup {<<"completed", "1", "asc">>}

List == \E q \in ListQueries : ListTransactions(q[1], q[2], q[3])

NextList ==
    \/ Submit
    \/ Created
    \/ Fire
    \/ Notified
    \/ Persist
    \/ List
    \/ ConnectDB
    \/ Tick

SpecList == Init /\ [][NextList]_vars

\* ------------------------------------------------------------------------
\* One payment, tickets and the admin status mutations, within a millisecond
\* ------------------------------------------------------------------------
TicketSlots == 1..Len(supportTickets)
KnownTicketIds == {supportTickets[n].id : n \in TicketSlots} \cup {UnknownTicketId}

SubmitFirst == transactions = <<>> /\ Submit
NewTicket == \E type \in TicketTypeInputs, name \in BOOLEAN, email \in BOOLEAN :
                /\ name /\ email => Len(supportTickets) < MaxTickets
                /\ CreateTicket(type, name, email)
TicketStored == \E n \in TicketSlots : TicketCreated(n)
TicketNotStored == \E n \in TicketSlots : TicketCreateFailed(n)
PatchOfTicket == \E id \in KnownTicketIds, status \in TicketStatusInputs : PatchTicket(id, status)

NextAdmin ==
    \/ SubmitFirst
    \/ Created
    \/ CreateFailed
    \/ Fire
    \/ Notified
    \/ Persist
    \/ Patch
    \/ NewTicket
    \/ TicketStored
    \/ TicketNotStored
    \/ PatchOfTicket
    \/ ConnectDB

SpecAdmin == Init /\ [][NextAdmin]_vars

\* ------------------------------------------------------------------------
\* The ticket desk: the three ticket routes, the listings, the dashboard and
\* the ticket status mutation, next to one payment
\* ------------------------------------------------------------------------
Room == Len(supportTickets) < MaxDesk

SubmitCard == transactions = <<>> /\ Payment(ValidCard)
ContactForm == Room /\ Contact
ContactStored == \E n \in TicketSlots : IntakeStored(n)
ContactMailed == \E n \in TicketSlots : IntakeMailed(n)

NextDesk ==
    \/ SubmitCard
    \/ Created
    \/ Fire
    \/ Notified
    \/ Persist
    \/ ContactForm
    \/ Room /\ Quote
    \/ Room /\ CreateTicket(Undefined, TRUE, TRUE)
    \/ ContactStored
    \/ \E n \in TicketSlots : IntakeStoreFailed(n)
    \/ ContactMailed
    \/ TicketStored
    \/ TicketNotStored
    \/ PatchOfTicket
    \/ \E status \in {Undefined, "new"} : ListTickets(status, "quote", Undefined, "asc")
    \/ ListTransactions("completed", Undefined, Undefined)
    \/ Stats
    \/ ConnectDB

SpecDesk == Init /\ [][NextDesk]_vars

\* ------------------------------------------------------------------------
\* Card payments made one after the other, and filtered listings
\* ------------------------------------------------------------------------
\* No payment is between its request and the end of its callback.
Quiet == \A k \in Slots : resolvers[k] \in {"done", "threw", "createFailed"}

\* Listings with a status filter, a limit within 1..200 and a direction.
FilteredQueries ==
    {<<"completed", limit, sortParam>> : limit \in {Undefined, "1"}, sortParam \in {"asc", "desc"}}

\* Payments come one after the other, and time passes between them.
NextQuery ==
    \/ Quiet /\ Payment(ValidCard)
    \/ Created
    \/ Fire
    \/ Notified
    \/ Persist
    \/ \E q \in FilteredQueries : ListTransactions(q[1], q[2], q[3])
    \/ ConnectDB
    \/ Quiet /\ Tick

SpecQuery == Init /\ [][NextQuery]_vars

\* ------------------------------------------------------------------------
\* A well-filled in-memory store and its listings
\* ------------------------------------------------------------------------
StockSizes == {0, 1, 2, 3, 49, 50, 51, 52, 199, 200, 201, MaxStock}

\* The record and the ticket of millisecond ms.
stockRecord(ms) == [txnRecord(ValidCard, "1") EXCEPT !.id = <<ms, "1">>, !.timestamp = ms]

stockTicket(ms) == [intakeTicket("contact") EXCEPT !.id = ms, !.timestamp = ms]

\* A server without MONGODB_URI that took, in each of its first n
\* milliseconds, one contact request and then one card payment; every contact
\* request has been answered and no timer has expired yet.
InitStock ==
    \E n \in StockSizes :
       /\ now = n
       /\ mongoUri = FALSE
       /\ Transaction = FALSE
       /\ transactions = IF n = 0 THEN <<>> ELSE [i \in 1..n |-> stockRecord(i - 1)]
       /\ collection = <<>>
       /\ resolvers = IF n = 0 THEN <<>> ELSE [i \in 1..n |-> "timer"]
       /\ notified = IF n = 0 THEN <<>> ELSE [i \in 1..n |-> "none"]
       /\ supportTickets = IF n = 0 THEN <<>> ELSE [i \in 1..n |-> stockTicket(i - 1)]
       /\ ticketDocs = <<>>
       /\ ticketCreates = IF n = 0 THEN <<>> ELSE [i \in 1..n |-> "answered"]
       /\ users = <<>>
       /\ adminUsers = <<>>
       /\ registrations = <<>>
       /\ request = IF n = 0 THEN NoRequest ELSE ValidCard
       /\ response = IF n = 0 THEN NoResponse
                     ELSE Reply("payment", 200, Undefined, <<<<n - 1, "1">>>>)

NextStock ==
    \/ \E limit \in LimitInputs, sortParam \in {"asc", "desc"} : ListTransactions(Undefined, limit, sortParam)
    \/ \E limit \in LimitInputs, sortParam \in {"asc", "desc"} : ListTickets(Undefined, Undefined, limit, sortParam)

SpecStock == InitStock /\ [][NextStock]_vars

\* ------------------------------------------------------------------------
\* One payment, two public tickets and the status mutations of both kinds
\* ------------------------------------------------------------------------
\* No handler of a public ticket route is between its request and its answer.
DeskQuiet == \A n \in TicketSlots : ticketCreates[n] \in {"answered", "failed"}

\* The requests that add a record, and the passing of time, come one after the
\* other; the status mutations come at any time.
NextFrame ==
    \/ DeskQuiet /\ SubmitCard
    \/ Created
    \/ Fire
    \/ Notified
    \/ Persist
    \/ Quiet /\ DeskQuiet /\ ContactForm
    \/ ContactStored
    \/ ContactMailed
    \/ Patch
    \/ PatchOfTicket
    \/ ConnectDB
    \/ Quiet /\ DeskQuiet /\ Tick

SpecFrame == Init /\ [][NextFrame]_vars

\* ------------------------------------------------------------------------
\* The in-memory server: registrations, inquiries and the admin's reads
\* ------------------------------------------------------------------------
Registrations == 1..Len(registrations)

InitInMemory == Init /\ mongoUri = FALSE

NextInMemory ==
    \/ Len(registrations) < MaxUsers /\ \E r \in RegisterInputs : Register(r)
    \/ \E n \in Registrations : RegisterHashed(n)
    \/ \E n \in Registrations : RegisterMailed(n)
    \/ InitializeAdmin
    \/ Room /\ Inquiry("contact")
    \/ Room /\ Inquiry("quote")
    \/ \E n \in TicketSlots : InquiryMailed(n)
    \/ AdminTickets
    \/ AdminDashboard
    \/ Tick

SpecInMemory == InitInMemory /\ [][NextInMemory]_vars

\* ------------------------------------------------------------------------
\* Properties of request validation and of the record built
\* ------------------------------------------------------------------------
ValidAmount(r) == r.amount # Undefined /\ ~parseFloat(r.amount).nan /\ parseFloat(r.amount).cents > 0

\* The step answers the request with an error and leaves no trace of it:
\* no record in either store, no callback scheduled or pending creation.
Refused ==
    /\ response'.op = "payment"
    /\ response'.code = 400
    /\ response'.error # Undefined
    /\ UNCHANGED <<transactions, collection, resolvers, notified, ticketVars>>

\* The validation failures listed for the payment request.
FailsValidation(r) ==
    \/ r.amount = Undefined
    \/ r.paymentMethod = Undefined
    \/ ~r.customerInfo
    \/ ~ValidAmount(r)
    \/ /\ r.paymentMethod \in CardMethods
       /\ \/ r.cardNumber = <<>>
          \/ r.expiryDate = Undefined
          \/ r.cvv = Undefined
          \/ r.cardName = Undefined
    \/ /\ r.paymentMethod \in CryptoMethods
       /\ r.walletAddress = Undefined

C8_UnsupportedMethodRefused ==
    [][(request'.paymentMethod \notin KnownMethods /\ Payment(request')) => Refused]_vars

\* C9: a card payment whose card number has fewer than 13 digits is refused,
\* whatever the other card fields are.
C9_ShortCardNumberRefused ==
    [][(/\ request'.paymentMethod \in CardMethods
        /\ Len(request'.cardNumber) < 13
        /\ Payment(request')) => Refused]_vars

\* The value of a toFixed(8) string modulo p, and of cents * rate modulo p.
RECURSIVE DigitsValue(_, _)
DigitsValue(ds, p) ==
    IF ds = <<>> THEN 0
    ELSE (10 * DigitsValue(SubSeq(ds, 1, Len(ds) - 1), p) + ds[Len(ds)]) % p

FixedValue(str, p) == ((str.whole % p) * (100000000 % p) + DigitsValue(str.frac, p)) % p
ProductValue(cents, rate, p) == ((cents % p) * (rate % p)) % p

\* str is the decimal numeral, with eight fraction digits, of cents * rate
\* units of 10^-8: both are below the product of the three primes, so equal
\* residues mean equal numbers.
IsFixed8Of(str, cents, rate) ==
    /\ Len(str.frac) = 8
    /\ \A i \in 1..Len(str.frac) : str.frac[i] \in 0..9
    /\ str.whole >= 0
    /\ \A p \in {39979, 39983, 39989} : FixedValue(str, p) = ProductValue(cents, rate, p)

\* The exchange rates (millionths) and network fees (10^-5) of the six methods.
ExpectedRate == [bitcoin |-> 24, ethereum |-> 400, litecoin |-> 13500,
                 dogecoin |-> 12500000, cardano |-> 2000000, solana |-> 10000]
ExpectedNetworkFee == [bitcoin |-> 10, ethereum |-> 100, litecoin |-> 100,
                       dogecoin |-> 100000, cardano |-> 17000, solana |-> 25]

CryptoRequestOk(r) ==
    /\ r.paymentMethod \in CryptoMethods
    /\ ValidAmount(r)
    /\ r.customerInfo
    /\ r.walletAddress # Undefined
    /\ r.cardNumber = <<>> /\ r.expiryDate = Undefined
    /\ r.cvv = Undefined /\ r.cardName = Undefined

Terminal == {"completed", "failed"}
Statuses == {"processing", "completed", "failed"}
Docs == 1..Len(collection)

\* The record the callback of the k-th payment looks up and mutates.
Target(k) == findIndex(transactions, transactions[k].id)

\* The callback of the k-th payment has run its synchronous part.
HasRun(k) == resolvers[k] \in {"email", "updating", "rejecting", "done", "threw"}

\* C1: once a transaction is completed or failed, no step changes its status,
\* confirmationCode, failureReason or processedAt, in the in-memory list or
\* in the collection.
C1_TerminalIsFinal ==
    [][ /\ \A k \in Slots :
            transactions[k].status \in Terminal =>
                /\ transactions'[k].status = transactions[k].status
                /\ transactions'[k].confirmationCode = transactions[k].confirmationCode
                /\ transactions'[k].failureReason = transactions[k].failureReason
                /\ transactions'[k].processedAt = transactions[k].processedAt
        /\ \A j \in Docs :
            collection[j].status \in Terminal =>
                /\ collection'[j].status = collection[j].status
                /\ collection'[j].confirmationCode = collection[j].confirmationCode
      ]_vars

\* C2: after the callback has run for a transaction, exactly one of
\* confirmationCode and failureReason is set on it: the code when the draw
\* was a success, the reason when it was a failure.
C2_ExactlyOneOutcomeField ==
    \A k \in Slots :
        HasRun(k) =>
            LET t == transactions[Target(k)]
            IN  /\ (t.confirmationCode # NoCode) # (t.failureReason # Undefined)
                /\ resolvers[k] \in {"email", "updating", "done"} => t.confirmationCode # NoCode

\* The k-th payment was answered with success and its callback is pending.
Accepted(k) == k \in Slots /\ resolvers[k] = "timer"

\* The record of the k-th payment is completed or failed wherever it is
\* stored: in the in-memory list and in every document with its id.
Settled(k) ==
    /\ k \in Slots
    /\ transactions[k].status \in Terminal
    /\ \A j \in Docs :
          collection[j].id = transactions[k].id => collection[j].status \in Terminal

\* C3: a transaction stored by a payment submission starts as processing and,
\* with fair scheduling, is eventually completed or failed.
C3_EventuallyTerminal ==
    \A k \in 1..MaxTxns : Accepted(k) ~> Settled(k)

\* C4: a callback that fires for a transaction whose status is already
\* completed or failed leaves that status unchanged.
C4_FireKeepsTerminalStatus ==
    [][\A k \in Slots :
          (/\ resolvers[k] = "timer"
           /\ resolvers'[k] # "timer"
           /\ transactions[Target(k)].status \in Terminal)
          => transactions'[Target(k)].status = transactions[Target(k)].status
      ]_vars

\* C5: the status of every stored transaction is processing, completed or
\* failed.
C5_StatusInEnumeration ==
    /\ \A k \in Slots : transactions[k].status \in Statuses
    /\ \A j \in Docs : collection[j].status \in Statuses

\* C6: a stored transaction has a confirmationCode only if it is completed, a
\* failureReason only if it is failed, a processedAt only if it is completed
\* or failed.
C6_OutcomeFieldsMatchStatus ==
    /\ \A k \in Slots :
          /\ transactions[k].confirmationCode # NoCode => transactions[k].status = "completed"
          /\ transactions[k].failureReason # Undefined => transactions[k].status = "failed"
          /\ transactions[k].processedAt # NoTime => transactions[k].status \in Terminal
    /\ \A j \in Docs :
          collection[j].confirmationCode # NoCode => collection[j].status = "completed"

\* ------------------------------------------------------------------------
\* Properties of the fee and the net amount
\* ------------------------------------------------------------------------
\* The fee table, in thousandths.
FeeRateEntries ==
    { <<"card", 29>>, <<"credit-card", 29>>, <<"debit-card", 25>>,
      <<"bitcoin", 5>>, <<"ethereum", 10>>, <<"litecoin", 5>>,
      <<"dogecoin", 5>>, <<"cardano", 5>>, <<"solana", 5>> }

\* The rate of a method, 0 for a method with no entry.
FeeRate(m) ==
    IF \E e \in FeeRateEntries : e[1] = m
    THEN (CHOOSE e \in FeeRateEntries : e[1] = m)[2]
    ELSE 0

\* f is x / d rounded to the nearest integer, a half rounded up.
IsRounded(f, x, d) == d * (2 * f - 1) <= 2 * x /\ 2 * x < d * (2 * f + 1)

Fires(k) == k \in Slots /\ resolvers[k] = "timer" /\ resolvers'[k] # "timer"

\* C12: the callback of a payment mutates the transaction that payment
\* created and no other one, also for payments accepted in the same
\* millisecond.
C12_CallbackMutatesOwnTransaction ==
    [][\A k \in Slots :
          Fires(k) =>
              /\ transactions'[k].processedAt # NoTime
              /\ \A j \in Slots \ {k} : transactions'[j] = transactions[j]
      ]_vars

\* The step schedules the callback of the k-th payment (setTimeout is called).
Schedules(k) ==
    /\ k \in 1..Len(resolvers')
    /\ resolvers'[k] = "timer"
    /\ (k \in 1..Len(resolvers) => resolvers[k] # "timer")

\* The creation write of the k-th payment is pending or has failed.
NotCreated(k) == resolvers[k] \in {"creating", "createFailed"}

\* C13: the callback of a payment is scheduled only once its record is in
\* the active store (the in-memory list and, with a model assigned, the
\* collection), and it never runs for a payment whose creation write is
\* pending or has failed.
C13_ScheduledAfterCreation ==
    [][\A k \in 1..Len(resolvers') :
          /\ Schedules(k) =>
                /\ k \in 1..Len(transactions')
                /\ transactions'[k].status = "processing"
                /\ Transaction =>
                      \E j \in 1..Len(collection') :
                          collection'[j] = document(transactions'[k])
          /\ (k \in Slots /\ NotCreated(k)) =>
                /\ resolvers'[k] \in {"creating", "createFailed", "timer"}
                /\ resolvers[k] = "createFailed" => resolvers'[k] = "createFailed"
      ]_vars

\* C13 witness: a payment made with the model assigned has had its document
\* created and its callback run.
C13_Witness ==
    \E k \in Slots :
        /\ HasRun(k)
        /\ \E j \in Docs : collection[j].id = transactions[k].id

\* C14: while the Notifier runs for a completed transaction, the terminal
\* update is already in the in-memory list and, where the transaction has a
\* document, in the collection.
C14_TerminalWrittenBeforeNotifier ==
    \A k \in Slots :
        resolvers[k] = "email" =>
            /\ transactions[Target(k)].status = "completed"
            /\ \A j \in Docs :
                  collection[j].id = transactions[k].id => collection[j].status = "completed"

\* C15: after a failed notification the transaction is still completed and
\* has its confirmationCode, and the failure does not end the callback in an
\* exception: one that ends so was refused by the store.
C15_NotifierFailureContained ==
    [][\A k \in Slots :
          notified'[k] = "failed" =>
              /\ transactions'[Target(k)].status = "completed"
              /\ transactions'[Target(k)].confirmationCode # NoCode
              /\ resolvers'[k] = "threw" => resolvers[k] \in {"rejecting", "threw"}
      ]_vars

\* C15 witness: the callback of a completed payment returned after its
\* notification failed.
C15_Witness ==
    \E k \in Slots :
        /\ notified[k] = "failed"
        /\ resolvers[k] = "done"
        /\ transactions[k].status = "completed"
        /\ transactions[k].confirmationCode # NoCode

\* C16: a refused update of the collection does not end the callback in an
\* exception, and the in-memory record keeps its outcome.
C16_UpdateFailureContained ==
    [][\A k \in Slots :
          resolvers[k] = "rejecting" =>
              /\ resolvers'[k] # "threw"
              /\ transactions'[Target(k)] = transactions[Target(k)]
      ]_vars

\* ------------------------------------------------------------------------
\* Properties of the listing
\* ------------------------------------------------------------------------
\* The payment request of the k-th record has returned success.
Succeeded(k) == k \in Slots /\ resolvers[k] \notin {"creating", "createFailed"}

\* The step is a listing with no status filter and the default limit of 50.
ListsAll ==
    \E status \in {Undefined, "all"}, sortParam \in SortInputs :
        ListTransactions(status, Undefined, sortParam)

\* C17: a listing with no status filter and a large enough limit contains
\* every transaction whose payment request has returned success, whichever
\* store it reads.
C17_ListingContainsAccepted ==
    [][ListsAll =>
          \A k \in Slots :
              Succeeded(k) =>
                  \E i \in 1..Len(response'.body) : response'.body[i].id = transactions[k].id
      ]_vars

\* What a caller reads of a listed record whichever store it came from.
Listed(items) ==
    [i \in 1..Len(items) |->
        <<items[i].id, items[i].status, items[i].confirmationCode>>]

\* Every payment was made with the model assigned and has its document.
AllInCollection ==
    /\ Len(collection) = Len(transactions)
    /\ \A k \in Slots : collection[k].id = transactions[k].id

\* C18: for the same payments and resolutions, a listing answered from the
\* collection returns what the same listing answered from the in-memory list
\* returns. With no status mutation the in-memory list of the server backed
\* by the collection is the list the server without one would hold.
C18_SameListingEitherBacking ==
    [][\A q \in ListQueries :
          (Transaction /\ AllInCollection /\ ListTransactions(q[1], q[2], q[3])) =>
              Listed(response'.body) = Listed(memoryItems(q[1], q[2], q[3]))
      ]_vars

\* ------------------------------------------------------------------------
\* Properties of the admin status mutations
\* ------------------------------------------------------------------------
\* The step leaves every stored transaction and ticket as it was.
NothingMutated == UNCHANGED <<transactions, collection, supportTickets, ticketDocs>>

\* C19: a status mutation of a transaction or of a ticket that carries no
\* status is rejected and changes no stored transaction or ticket.
C19_MissingStatusRejected ==
    [][ /\ \A id \in KnownIds :
            PatchTransaction(id, Undefined) =>
                response'.code = 400 /\ response'.error # Undefined /\ NothingMutated
        /\ \A id \in KnownTicketIds :
            PatchTicket(id, Undefined) =>
                response'.code = 400 /\ response'.error # Undefined /\ NothingMutated
      ]_vars

\* C19 witness: with a stored transaction and a stored ticket, a ticket
\* status mutation with no status has been rejected.
C19_Witness ==
    /\ response.op = "patchTicket"
    /\ response.code = 400
    /\ transactions # <<>>
    /\ supportTickets # <<>>

\* No stored transaction, in the list or in the collection, has this id.
NoTransactionHas(id) ==
    /\ \A k \in Slots : transactions[k].id # id
    /\ \A j \in Docs : collection[j].id # id

NoTicketHas(id) ==
    /\ \A n \in TicketSlots : supportTickets[n].id # id
    /\ \A j \in 1..Len(ticketDocs) : ticketDocs[j].id # id

PatchesTicket(id) == \E status \in TicketStatusInputs : PatchTicket(id, status)

\* C21: the status of a ticket, in the list and in the collection, changes
\* only in a step of the ticket status mutation with the id of that ticket;
\* every other step (the three creation routes and their awaits, the payment,
\* its callback, the listings, the dashboard) leaves the status of every
\* ticket as it was, and every ticket a step adds has status new.
C21_StatusChangesOnlyByPatch ==
    [][ /\ Len(supportTickets') >= Len(supportTickets)
        /\ Len(ticketDocs') >= Len(ticketDocs)
        /\ \A n \in 1..Len(supportTickets) :
              supportTickets'[n].status # supportTickets[n].status
                 => PatchesTicket(supportTickets[n].id)
        /\ \A n \in 1..Len(ticketDocs) :
              ticketDocs'[n].status # ticketDocs[n].status
                 => PatchesTicket(ticketDocs[n].id)
        /\ \A n \in (Len(supportTickets) + 1)..Len(supportTickets') :
              supportTickets'[n].status = "new"
        /\ \A n \in (Len(ticketDocs) + 1)..Len(ticketDocs') :
              ticketDocs'[n].status = "new" ]_vars

\* A closed ticket, a later ticket that is new, a completed payment and a
\* dashboard answer.
C21_Witness ==
    /\ Len(supportTickets) = 2
    /\ supportTickets[1].status = "closed"
    /\ supportTickets[2].status = "new"
    /\ Len(transactions) = 1
    /\ transactions[1].status = "completed"
    /\ response.op = "stats"

\* ------------------------------------------------------------------------
\* Properties of the listings
\* ------------------------------------------------------------------------
\* The records the listing reads: the collection with the model assigned,
\* the in-memory list without.
Stored == IF Transaction THEN collection ELSE transactions

\* The places in the store of the records with that status.
Matching(status) == {m \in 1..Len(Stored) : Stored[m].status = status}

\* items are the first records of the stored records with that status taken
\* in timestamp order: each item is a stored record of its own, and no record
\* left out comes before an item.
FirstOf(items, status, dir) ==
    \E f \in [1..Len(items) -> Matching(status)] :
       /\ \A i, j \in 1..Len(items) : i # j => f[i] # f[j]
       /\ \A i \in 1..Len(items) : items[i] = Stored[f[i]]
       /\ \A m \in Matching(status) :
             (\A i \in 1..Len(items) : f[i] # m) =>
                 \A i \in 1..Len(items) : compare(items[i], Stored[m], dir) <= 0

\* C22: a transaction listing with a status filter, a limit n within 1..200
\* and a direction returns min(n, number of stored records with that status)
\* records, each with that status, in timestamp order (non-decreasing for
\* asc, non-increasing for desc), and they are the first n of the stored
\* records with that status in that order.
C22_FilteredListing ==
    [][\A q \in FilteredQueries :
          (response'.op = "list" /\ ListTransactions(q[1], q[2], q[3])) =>
              LET items == response'.body
                  n == limOf(q[2])
                  dir == dirOf(q[3])
              IN  /\ n \in 1..200
                  /\ Len(items) = Min(n, Cardinality(Matching(q[1])))
                  /\ \A i \in 1..Len(items) : items[i].status = q[1]
                  /\ \A i, j \in 1..Len(items) :
                        i < j => compare(items[i], items[j], dir) <= 0
                  /\ \A i, j \in 1..Len(items) :
                        i < j => IF q[3] = "asc"
                                 THEN items[i].timestamp <= items[j].timestamp
                                 ELSE items[i].timestamp >= items[j].timestamp
                  /\ FirstOf(items, q[1], dir)
      ]_vars

\* Two completed payments of different milliseconds are stored and a listing
\* with limit 1, newest first, has returned the second.
C22_Witness ==
    /\ Len(Stored) = 2
    /\ Stored[1].status = "completed"
    /\ Stored[2].status = "completed"
    /\ Stored[1].timestamp < Stored[2].timestamp
    /\ response.op = "list"
    /\ response.body = <<Stored[2]>>

\* C23: a transaction listing or a ticket listing never returns more than 200
\* records, whatever the limit parameter and however many records are stored.
C23_ListingCapped ==
    response.op \in {"list", "tickets"} => Len(response.body) <= 200

\* The sum of a field over the records of a set of places of the store.
RECURSIVE SumOver(_, _)
SumOver(places, field) ==
    IF places = {} THEN 0
    ELSE LET m == CHOOSE m \in places : TRUE
         IN  Stored[m][field] + SumOver(places \ {m}, field)

\* The tickets the dashboard reads.
StoredTickets == IF Ticket THEN ticketDocs ELSE supportTickets

\* C24: the dashboard aggregate reports the number of stored transactions,
\* the number with status completed, the number still awaiting resolution
\* (status processing), the number of tickets, the number of tickets with
\* status new, and as gross and net revenue the sums of amount and of
\* netAmount over the completed transactions.
C24_DashboardAggregate ==
    [][Stats =>
          LET body == response'.body[1]
          IN  /\ body.totalTransactions = Len(Stored)
              /\ body.completedTransactions = Cardinality(Matching("completed"))
              /\ body.pendingTransactions = Cardinality(Matching("processing"))
              /\ body.totalTickets = Len(StoredTickets)
              /\ body.newTickets =
                    Cardinality({n \in 1..Len(StoredTickets) : StoredTickets[n].status = "new"})
              /\ body.totalRevenueGross = SumOver(Matching("completed"), "amount")
              /\ body.totalRevenueNet = SumOver(Matching("completed"), "netAmount")
      ]_vars

\* ------------------------------------------------------------------------
\* Properties of the resolution of a crypto payment
\* ------------------------------------------------------------------------
\* The address prefix of a crypto method.
AddressPrefix(method) ==
    CASE method = "bitcoin" -> "1"
      [] method = "ethereum" -> "0x"
      [] method = "litecoin" -> "L"
      [] method = "dogecoin" -> "D"
      [] method = "cardano" -> "addr1"
      [] method = "solana" -> ""

\* The transactionHash of a completed crypto record is the hash given with
\* the request, or, with none given, a hash with the prefix of its method.
HashSettled(t) ==
    (isCrypto(t.paymentMethod) /\ t.status = "completed") =>
        LET hash == hashOf(t.paymentDetails)
        IN  IF request.cryptoTxHash # Undefined
            THEN hash = <<"", request.cryptoTxHash>>
            ELSE hash # NoHash /\ hash[1] = AddressPrefix(t.paymentMethod)

\* The hash given with the request is the transactionHash of the record.
GivenHashKept(t) ==
    (isCrypto(t.paymentMethod) /\ request.cryptoTxHash # Undefined) =>
        hashOf(t.paymentDetails) = <<"", request.cryptoTxHash>>

C26_CallbackRunsThroughItsBranch ==
    [][\A k \in Slots : Fires(k) => resolvers'[k] # "threw"]_vars

\* ------------------------------------------------------------------------
\* The frame of a successful status mutation
\* ------------------------------------------------------------------------
\* after is before with the status of one record of that id set, and nothing
\* else changed: no other field of that record, no other record.
OnlyStatusOf(before, after, id, status) ==
    /\ Len(after) = Len(before)
    /\ \E idx \in 1..Len(before) :
          /\ before[idx].id = id
          /\ after[idx].status = status
          /\ DOMAIN after[idx] = DOMAIN before[idx]
          /\ \A field \in DOMAIN before[idx] \ {"status"} :
                after[idx][field] = before[idx][field]
          /\ \A i \in 1..Len(before) : i # idx => after[i] = before[i]

\* C27: a status mutation that succeeds changes the status field of one
\* record with the given id in the store it addresses, and nothing else: the
\* other fields of that record, the other records of that store, and the
\* other stores of transactions and tickets are as they were.
C27_MutationChangesStatusOnly ==
    [][ /\ \A id \in KnownIds, status \in StatusInputs :
              (PatchTransaction(id, status) /\ response'.code = 200) =>
                  /\ IF Transaction
                     THEN /\ OnlyStatusOf(collection, collection', id, status)
                          /\ UNCHANGED transactions
                     ELSE /\ OnlyStatusOf(transactions, transactions', id, status)
                          /\ UNCHANGED collection
                  /\ UNCHANGED <<supportTickets, ticketDocs>>
        /\ \A id \in KnownTicketIds, status \in TicketStatusInputs :
              (PatchTicket(id, status) /\ response'.code = 200) =>
                  /\ IF Ticket
                     THEN /\ OnlyStatusOf(ticketDocs, ticketDocs', id, status)
                          /\ UNCHANGED supportTickets
                     ELSE /\ OnlyStatusOf(supportTickets, supportTickets', id, status)
                          /\ UNCHANGED ticketDocs
                  /\ UNCHANGED <<transactions, collection>>
      ]_vars

\* The second of two tickets of different ids has been closed by a mutation
\* that left the first ticket new and a completed transaction as it was.
C27_Witness ==
    /\ response.op = "patchTicket"
    /\ response.code = 200
    /\ Len(supportTickets) = 2
    /\ supportTickets[1].id # supportTickets[2].id
    /\ supportTickets[1].status = "new"
    /\ supportTickets[2].status = "closed"
    /\ Len(transactions) = 1
    /\ transactions[1].status = "completed"
    /\ transactions[1].confirmationCode # NoCode

\* ------------------------------------------------------------------------
\* Properties of the in-memory server
\* ------------------------------------------------------------------------
\* C28: whatever the interleaving of registration requests, no two stored
\* users have the same email compared without regard to case, and no stored
\* user has the email of the admin.
C28_EmailsUnique ==
    /\ \A i, j \in 1..Len(users) :
          i # j => toLowerCase(users[i].email) # toLowerCase(users[j].email)
    /\ \A i \in 1..Len(users) : toLowerCase(users[i].email) # toLowerCase(AdminEmail)

\* C29: a listing or dashboard request of the admin leaves the in-memory
\* lists of transactions and tickets, and their order, as they were, so that
\* the same listing asked again straight away returns the same records in the
\* same order.
C29_ListingsReadOnly ==
    [][ /\ (AdminTickets \/ AdminDashboard) => UNCHANGED <<transactions, supportTickets>>
        /\ AdminTickets => reverse(supportTickets') = response'.body ]_vars

\* ------------------------------------------------------------------------
\* Ticket ids
\* ------------------------------------------------------------------------
\* C30: no two stored tickets share an id, whichever of the three creation
\* routes made them and however close in time, so that a ticket status
\* mutation by id addresses the one ticket created with that id.
C30_TicketIdsUnique ==
    /\ \A m, n \in TicketSlots : m # n => supportTickets[m].id # supportTickets[n].id
    /\ \A i, j \in 1..Len(ticketDocs) : i # j => ticketDocs[i].id # ticketDocs[j].id

====
